---- MODULE Spec2Model ----
(***************************************************************************)
(* Verification model of the gemini-proxy credential and request pipeline. *)
(*                                                                         *)
(* The module models the components of the source, each with its own       *)
(* specification over the shared variables:                                *)
(*   SpecPool    - ApiKeyCache / ApiKeyManager (load, getNextKey,           *)
(*                 removeApiKey) on one rotating credential set            *)
(*   SpecRotate  - the same pool with fewer concurrent callers             *)
(*   SpecAuth    - ApiKeyManager.validateClientKey on the auth-secret set  *)
(*   SpecHandler - handleRequest: fingerprinting and pending-request map   *)
(*   SpecBreaker - CircuitBreaker under concurrent executions              *)
(*   SpecRetry   - fetchWithRetry through the breaker and the key set      *)
(*   SpecBatch   - TranslationService.translateBatch under the semaphore   *)
(* Scheduling follows the JavaScript event loop: an external event (a     *)
(* call, a KV reply, a timer, a clock tick) is taken only when the        *)
(* microtask queue runq is empty, and promise reactions run in the order  *)
(* in which they were registered.                                          *)
(***************************************************************************)
EXTENDS Integers, Sequences, FiniteSets, TLC

\* ------------------------------------------------------------------ bounds
NumCallers == 3
FewCallers == 2
MaxOps == 3
MaxNow == 2
CacheDuration == 1
NumReqs == 3
MaxExec == 7
MaxInflight == 2
BreakerTimeout == 2
MaxRetries == 3
MaxRuns == 3
MaxLen == 3
SemaphoreMax == 2
MaxStr == 2
MaxKeyCacheSize == 1
MaxHdr == 3
MaxAttempts == 7

\* --------------------------------------------------------------- constants
SyncInterval == 100
FailureThreshold == 5
SuccessThreshold == 2
DirectLimit == 100
BackoffBase == 100
RateLimitBase == 1000
MaxDelay == 5000

Keys == {"A", "B"}
KeyOrder == <<"A", "B">>
Callers == 1..NumCallers
NaN == -1

VARIABLES
  now,            \* Date.now(), in abstract ticks
  redisOn,        \* this.redis !== null
  store,          \* members of the KV set behind the cache
  duration,       \* ApiKeyCache.duration
  cache,          \* ApiKeyCache.cache: [loaded, keys]; loaded = FALSE is null
  timestamp,      \* ApiKeyCache.timestamp
  loadingPromise, \* ApiKeyCache.loadingPromise: owner of the promise, 0 is null
  kv,             \* per caller: its outstanding KV call and the reply
  waiters,        \* per load owner: callers awaiting its promise, in order
  pc,             \* per caller: where its async function is suspended
  op,             \* per caller: the operation it runs
  arg,            \* per caller: the key argument of that operation
  res,            \* per caller: the settled value of the promise it awaited
  runq,           \* microtask queue: callers whose continuation is ready
  counter,        \* ApiKeyManager.counters.get(indexKey); NaN is -1
  syncIssued,     \* number of redis.set(indexKey, counter) writes issued
  opsLeft,        \* calls the environment may still start
  seen,           \* per caller: what the cache load gave validateClientKey
  last,           \* history: the operation that completed last, and its result
  picks,          \* history: selections made on the current values
  picksVals,      \* history: the values those selections were made on
  evictedDone,    \* history: keys evicted and removed from the store, not re-added
  staleReturn,    \* history: a load returned a key in evictedDone
  hreq,           \* per request: method, body and credential it carries
  hpc,            \* per request: where its handleRequest is suspended
  pendingRequests,\* pendingRequests: entries [key, owner]
  timers,         \* setTimeout(delete) calls not fired yet: key and caller
  resp,           \* per request: the response handleRequest returned
  invocations,    \* history: per request, processRequest calls it made
  arrivedWhile,   \* history: per request, owner of the entry at its arrival
  foundAt,        \* history: per request, owner of the entry at its lookup
  breaker,        \* CircuitBreaker: state, failureCount, successCount, nextAttempt
  inflight,       \* operations invoked by execute and not settled yet
  execLeft,       \* execute calls the environment may still make
  consecFail,     \* history: failed executions since the last success
  rejectedOpen,   \* history: an execute call was rejected by the open breaker
  fr,             \* fetchWithRetry: i, usedKeys, lastResponse, successfulResponse
  received,       \* history: responses received in this fetchWithRetry call
  threwAt,        \* history: iterations of this call that ended in the catch
  runsLeft,       \* fetchWithRetry calls the environment may still make
  attempts,       \* history: the iterations of this call that were no skips
  evictions,      \* history: removeApiKey calls of this call, with srem issued
  textList,       \* translateBatch: the input
  cacheHits,      \* texts for which the translation cache holds a record
  cachedTranslations, \* translateBatch: text -> record
  textsToTranslate,   \* translateBatch: the texts not found in the cache
  translations,   \* what Promise.all collects, by task index
  task,           \* per task: "waiting", "running" or "settled"
  semaphore,      \* Semaphore: current and queue
  completed,      \* history: task indices in completion order
  unusable,       \* history: tasks whose retry executor gave no usable response
  results,        \* translateBatch: the array it returns
  bst,            \* translateBatch: "init", "translating", "returned", "threw"
  written,        \* records handed to cacheService.set / setMultiple
  sp,             \* per caller of the semaphore: where it stands
  ticket,         \* history: per caller, the stamp of its queued acquire
  nextTicket,     \* history: the next stamp
  keyCache,       \* CacheService.keyCache: [id, key] in insertion order
  prevCall,       \* history: the generateCacheKey call before the last
  curCall,        \* history: the last generateCacheKey call and its key
  creq,           \* the request whose credential is derived
  cred,           \* the credential its route derived, "pending" before
  waits           \* history: the delays a retry loop has slept, in order

poolVars == <<now, redisOn, store, duration, cache, timestamp, loadingPromise,
              kv, waiters, pc, op, arg, res, runq, counter, syncIssued,
              opsLeft, seen, last, picks, picksVals, evictedDone,
              staleReturn>>

handlerVars == <<hreq, hpc, pendingRequests, timers, resp, invocations,
                 arrivedWhile, foundAt>>

breakerVars == <<breaker, inflight, execLeft, consecFail, rejectedOpen>>

retryVars == <<fr, received, threwAt, runsLeft, attempts, evictions>>

batchVars == <<textList, cacheHits, cachedTranslations, textsToTranslate,
               translations, task, semaphore, completed, unusable, results,
               bst, written>>

semVars == <<sp, ticket, nextTicket>>

keyVars == <<keyCache, prevCall, curCall>>

credVars == <<creq, cred>>

delayVars == <<waits>>

extraVars == <<semVars, keyVars, credVars, delayVars>>

nonPool == <<handlerVars, breakerVars, retryVars, batchVars, extraVars>>

vars == <<poolVars, nonPool>>

\* ------------------------------------------------------------ pure helpers
NullCache == [loaded |-> FALSE, keys |-> <<>>]
NoCall == [kind |-> "none", st |-> "none", ok |-> FALSE, keys |-> <<>>, yes |-> FALSE]
Sent(kind) == [kind |-> kind, st |-> "sent", ok |-> FALSE, keys |-> <<>>, yes |-> FALSE]
Failed == [ok |-> FALSE, val |-> <<>>]
Loaded(ks) == [ok |-> TRUE, val |-> ks]
NoOp == [op |-> "none", key |-> "none", seen |-> "none", member |-> "none",
         ret |-> "none"]

Range(s) == {s[i] : i \in 1..Len(s)}
Includes(s, k) == k \in Range(s)

\* redis.smembers: the members of the set, in the store's order
Members(S) == SelectSeq(KeyOrder, LAMBDA k : k \in S)

\* Array.prototype.filter(k => k !== key)
Filter(s, key) == SelectSeq(s, LAMBDA k : k # key)

\* ApiKeyCache.isValid
IsValid == cache.loaded /\ (now - timestamp) < duration

\* A removeKey that leaves the local values as they are
RemoveNothing(c, key) == c

\* ApiKeyCache.removeKey
RemoveKey(c, key) ==
  IF c.loaded THEN [c EXCEPT !.keys = Filter(c.keys, key)] ELSE c

\* this.counters.get(indexKey) || 0
CounterOrZero(c) == IF c = NaN THEN 0 ELSE c

\* counter = (counter + 1) % keys.length
NextCounterNoAdvance(c, n) == IF n = 0 THEN NaN ELSE CounterOrZero(c) % n

NextCounter(c, n) == IF n = 0 THEN NaN ELSE (CounterOrZero(c) + 1) % n

\* A selection that always takes the first key
KeyAtFirst(ks, c) == IF Len(ks) = 0 THEN "undefined" ELSE ks[1]

\* keys[counter]
KeyAt(ks, c) == IF c = NaN \/ c >= Len(ks) THEN "undefined" ELSE ks[c + 1]

\* counter % this.counterSyncInterval === 0
SyncDue(c) == c # NaN /\ c % SyncInterval = 0

\* ===================================================== credential pool ==
InitPoolState(d) ==
  /\ now = 0
  /\ redisOn \in BOOLEAN
  /\ store \in SUBSET Keys
  /\ duration = d
  /\ cache = NullCache
  /\ timestamp = 0
  /\ loadingPromise = 0
  /\ kv = [p \in Callers |-> NoCall]
  /\ waiters = [p \in Callers |-> <<>>]
  /\ pc = [p \in Callers |-> "idle"]
  /\ op = [p \in Callers |-> "none"]
  /\ arg = [p \in Callers |-> "none"]
  /\ res = [p \in Callers |-> Failed]
  /\ runq = <<>>
  /\ counter = 0
  /\ syncIssued = 0
  /\ opsLeft = MaxOps
  /\ seen = [p \in Callers |-> "none"]
  /\ last = NoOp
  /\ picks = <<>>
  /\ picksVals = <<>>
  /\ evictedDone = {}
  /\ staleReturn = FALSE

\* Caller p's operation o(k) returns rt (or throws: rt = "threw")
Finish(p, o, k, sn, mb, rt) ==
  /\ pc' = [pc EXCEPT ![p] = "idle"]
  /\ op' = [op EXCEPT ![p] = "none"]
  /\ arg' = [arg EXCEPT ![p] = "none"]
  /\ seen' = [seen EXCEPT ![p] = "none"]
  /\ last' = [op |-> o, key |-> k, seen |-> sn, member |-> mb, ret |-> rt]

\* Caller p's operation o(k) suspends at an await
Await(p, o, k, at, sn) ==
  /\ pc' = [pc EXCEPT ![p] = at]
  /\ op' = [op EXCEPT ![p] = o]
  /\ arg' = [arg EXCEPT ![p] = k]
  /\ seen' = [seen EXCEPT ![p] = sn]
  /\ UNCHANGED last

\* A load result r is handed to its caller: does it hold an evicted key?
StaleIn(r) == r.ok /\ (Range(r.val) \cap evictedDone) # {}

\* getNextKey after `await cache.load(...)`: the selection
SelectNext(p, r) ==
  /\ UNCHANGED kv
  /\ IF r.ok
     THEN LET c == NextCounter(counter, Len(r.val))
              key == KeyAt(r.val, c)
          IN /\ counter' = c
             /\ syncIssued' = IF SyncDue(c) THEN syncIssued + 1 ELSE syncIssued
             /\ picks' = (IF r.val = picksVals THEN picks ELSE <<>>)
                           \o <<[prev |-> counter, idx |-> c, key |-> key]>>
             /\ picksVals' = r.val
             /\ Finish(p, "next", "none", "none", "none", key)
     ELSE /\ UNCHANGED <<counter, syncIssued, picks, picksVals>>
          /\ Finish(p, "next", "none", "none", "none", "threw")

\* validateClientKey: `if (this.redis)` and the sismember call
AskStore(p, k, sn) ==
  IF redisOn
  THEN /\ kv' = [kv EXCEPT ![p] = Sent("sismember")]
       /\ Await(p, "validate", k, "ismember", sn)
  ELSE /\ UNCHANGED kv
       /\ Finish(p, "validate", k, sn, "none", "false")

\* A validateClientKey that lets the load's error escape
AuthLoadFailureThrows(p, k) ==
  /\ UNCHANGED kv
  /\ Finish(p, "validate", k, "loadfail", "none", "threw")

\* validateClientKey: the catch around `await authCache.load(...)`
OnAuthLoadFailure(p, k) == AskStore(p, k, "loadfail")

\* validateClientKey after `await authCache.load(...)`
CheckAuth(p, k, r) ==
  /\ UNCHANGED <<counter, syncIssued, picks, picksVals>>
  /\ IF ~r.ok
     THEN OnAuthLoadFailure(p, k)
     ELSE IF Includes(r.val, k)
     THEN /\ UNCHANGED kv
          /\ Finish(p, "validate", k, "hit", "none", "true")
     ELSE AskStore(p, k, "miss")

\* The caller of load continues with the load's outcome r
AfterLoad(p, o, k, r) ==
  /\ staleReturn' = (staleReturn \/ StaleIn(r))
  /\ IF o = "next" THEN SelectNext(p, r) ELSE CheckAuth(p, k, r)

\* load: `this.loadingPromise = this._loadFromRedis(redis)` and the await
StartLoad(p, o, k) ==
  IF redisOn
  THEN /\ kv' = [kv EXCEPT ![p] = Sent("smembers")]
       /\ loadingPromise' = p
       /\ waiters' = [waiters EXCEPT ![p] = <<>>]
       /\ Await(p, o, k, "own", "none")
       /\ UNCHANGED <<counter, syncIssued, picks, picksVals, staleReturn>>
  ELSE /\ loadingPromise' = 0
       /\ UNCHANGED waiters
       /\ AfterLoad(p, o, k, Failed)

\* load: `if (this.loadingPromise)`: join the load in flight
JoinLoad(p, o, k) ==
  /\ waiters' = [waiters EXCEPT ![loadingPromise] = Append(@, p)]
  /\ Await(p, o, k, "join", "none")
  /\ UNCHANGED <<loadingPromise, kv, counter, syncIssued, picks, picksVals,
                 staleReturn>>

\* load, entered by a new call of operation o
EnterLoad(p, o, k) ==
  IF IsValid
  THEN /\ UNCHANGED <<loadingPromise, waiters>>
       /\ AfterLoad(p, o, k, Loaded(cache.keys))
  ELSE IF loadingPromise # 0
  THEN JoinLoad(p, o, k)
  ELSE StartLoad(p, o, k)

CanCall(p) == runq = <<>> /\ pc[p] = "idle" /\ opsLeft > 0

\* getNextKey(type, indexKey)
GetNextKey(p) ==
  /\ CanCall(p)
  /\ opsLeft' = opsLeft - 1
  /\ EnterLoad(p, "next", "none")
  /\ UNCHANGED <<now, redisOn, store, duration, cache, timestamp, res, runq,
                 evictedDone>>
  /\ UNCHANGED nonPool

\* validateClientKey(authKey)
ValidateClientKey(p, k) ==
  /\ CanCall(p)
  /\ opsLeft' = opsLeft - 1
  /\ EnterLoad(p, "validate", k)
  /\ UNCHANGED <<now, redisOn, store, duration, cache, timestamp, res, runq,
                 evictedDone>>
  /\ UNCHANGED nonPool

\* removeApiKey(keyToRemove, type) up to `await this.redis.srem(...)`
RemoveApiKey(p, k) ==
  /\ CanCall(p)
  /\ opsLeft' = opsLeft - 1
  /\ cache' = RemoveKey(cache, k)
  /\ IF redisOn
     THEN /\ kv' = [kv EXCEPT ![p] = Sent("srem")]
          /\ Await(p, "evict", k, "srem", "none")
          /\ UNCHANGED evictedDone
     ELSE /\ Finish(p, "evict", k, "none", "none", "done")
          /\ UNCHANGED <<kv, evictedDone>>
  /\ UNCHANGED <<now, redisOn, store, duration, timestamp, loadingPromise,
                 waiters, res, runq, counter, syncIssued, picks, picksVals,
                 staleReturn>>
  /\ UNCHANGED nonPool

\* The KV service executes an outstanding call (or fails it)
KvServe(p) ==
  /\ runq = <<>>
  /\ kv[p].st = "sent"
  /\ \E ok \in BOOLEAN :
       /\ kv' = [kv EXCEPT ![p] =
                   [kind |-> kv[p].kind, st |-> "served", ok |-> ok,
                    keys |-> IF ok /\ kv[p].kind = "smembers"
                             THEN Members(store) ELSE <<>>,
                    yes |-> ok /\ kv[p].kind = "sismember" /\ arg[p] \in store]]
       /\ store' = IF ok /\ kv[p].kind = "srem" THEN store \ {arg[p]} ELSE store
  /\ UNCHANGED <<now, redisOn, duration, cache, timestamp, loadingPromise,
                 waiters, pc, op, arg, res, runq, counter, syncIssued,
                 opsLeft, seen, last, picks, picksVals, evictedDone,
                 staleReturn>>
  /\ UNCHANGED nonPool

\* _loadFromRedis after `await redis.smembers(...)`; the promise settles
SmembersReply(p) ==
  /\ runq = <<>>
  /\ kv[p].kind = "smembers" /\ kv[p].st = "served"
  /\ LET good == kv[p].ok /\ kv[p].keys # <<>>
         r == IF good THEN Loaded(kv[p].keys) ELSE Failed
     IN /\ cache' = IF good THEN [loaded |-> TRUE, keys |-> kv[p].keys] ELSE cache
        /\ timestamp' = IF good THEN now ELSE timestamp
        /\ res' = [q \in Callers |->
                     IF q = p \/ q \in Range(waiters[p]) THEN r ELSE res[q]]
  /\ runq' = <<p>> \o waiters[p]
  /\ waiters' = [waiters EXCEPT ![p] = <<>>]
  /\ kv' = [kv EXCEPT ![p] = NoCall]
  /\ UNCHANGED <<now, redisOn, store, duration, loadingPromise, pc, op, arg,
                 counter, syncIssued, opsLeft, seen, last, picks, picksVals,
                 evictedDone, staleReturn>>
  /\ UNCHANGED nonPool

\* load: the `finally` of the caller that started the load
ClearLoadingPromise(p) == 0

\* load resumes after `await this.loadingPromise`
ResumeLoad(p) ==
  /\ runq # <<>> /\ Head(runq) = p
  /\ runq' = Tail(runq)
  /\ res' = [res EXCEPT ![p] = Failed]
  /\ IF pc[p] = "own"
     THEN /\ loadingPromise' = ClearLoadingPromise(p)
          /\ UNCHANGED waiters
          /\ AfterLoad(p, op[p], arg[p], res[p])
     ELSE IF res[p].ok
     THEN /\ UNCHANGED <<loadingPromise, waiters>>
          /\ AfterLoad(p, op[p], arg[p], res[p])
     ELSE StartLoad(p, op[p], arg[p])
  /\ UNCHANGED <<now, redisOn, store, duration, cache, timestamp, opsLeft,
                 evictedDone>>
  /\ UNCHANGED nonPool

\* removeApiKey after `await this.redis.srem(...)`
SremReply(p) ==
  /\ runq = <<>>
  /\ kv[p].kind = "srem" /\ kv[p].st = "served"
  /\ kv' = [kv EXCEPT ![p] = NoCall]
  /\ Finish(p, "evict", arg[p], "none", "none", "done")
  /\ evictedDone' = IF kv[p].ok THEN evictedDone \cup {arg[p]} ELSE evictedDone
  /\ UNCHANGED <<now, redisOn, store, duration, cache, timestamp,
                 loadingPromise, waiters, res, runq, counter, syncIssued,
                 opsLeft, picks, picksVals, staleReturn>>
  /\ UNCHANGED nonPool

\* validateClientKey after `await this.redis.sismember(...)`
SismemberReply(p) ==
  /\ runq = <<>>
  /\ kv[p].kind = "sismember" /\ kv[p].st = "served"
  /\ kv' = [kv EXCEPT ![p] = NoCall]
  /\ IF kv[p].ok /\ kv[p].yes
     THEN /\ cache' = IF cache.loaded /\ ~Includes(cache.keys, arg[p])
                      THEN [cache EXCEPT !.keys = Append(@, arg[p])] ELSE cache
          /\ Finish(p, "validate", arg[p], seen[p], "yes", "true")
     ELSE /\ UNCHANGED cache
          /\ Finish(p, "validate", arg[p], seen[p],
                    IF kv[p].ok THEN "no" ELSE "err", "false")
  /\ UNCHANGED <<now, redisOn, store, duration, timestamp, loadingPromise,
                 waiters, res, runq, counter, syncIssued, opsLeft, picks,
                 picksVals, evictedDone, staleReturn>>
  /\ UNCHANGED nonPool

\* An administrator adds a member to the KV set
StoreAdd(k) ==
  /\ runq = <<>>
  /\ k \notin store
  /\ store' = store \cup {k}
  /\ evictedDone' = evictedDone \ {k}
  /\ UNCHANGED <<now, redisOn, duration, cache, timestamp, loadingPromise, kv,
                 waiters, pc, op, arg, res, runq, counter, syncIssued,
                 opsLeft, seen, last, picks, picksVals, staleReturn>>
  /\ UNCHANGED nonPool

\* Time passes
Tick ==
  /\ runq = <<>>
  /\ now < MaxNow
  /\ now' = now + 1
  /\ UNCHANGED <<redisOn, store, duration, cache, timestamp, loadingPromise,
                 kv, waiters, pc, op, arg, res, runq, counter, syncIssued,
                 opsLeft, seen, last, picks, picksVals, evictedDone,
                 staleReturn>>
  /\ UNCHANGED nonPool

\* =========================================================== coalescer ==
Reqs == 1..NumReqs
Methods == {"GET", "POST"}
FallbackMethods == {"PUT", "DELETE"}
Bodies == {"x"}
Credentials == {"none"} \cup Keys
Path == "/v1/models"

NoReq == [method |-> "none", body |-> "none", auth |-> "none", at |-> 0]
NoResp == [status |-> 0, by |-> 0]

InitHandlerState ==
  /\ hreq = [r \in Reqs |-> NoReq]
  /\ hpc = [r \in Reqs |-> "new"]
  /\ pendingRequests = {}
  /\ timers = {}
  /\ resp = [r \in Reqs |-> NoResp]
  /\ invocations = [r \in Reqs |-> 0]
  /\ arrivedWhile = [r \in Reqs |-> 0]
  /\ foundAt = [r \in Reqs |-> 0]

\* crypto.subtle.digest('SHA-1', ...) in hex, taken as collision-free
Sha1Hex(body) == IF body = "x" THEN "sha1(POST:/v1/models:x)"
                 ELSE "sha1(POST:/v1/models:)"

\* generateRequestKey: method and URL for GET/HEAD, method, path and body
\* digest for POST, method, path and Date.now() for any other request;
\* the request's headers take no part
GenerateRequestKey(q) ==
  IF q.method \in {"GET", "HEAD"}
  THEN [method |-> q.method, url |-> Path, hash |-> "", ts |-> 0]
  ELSE IF q.method = "POST" /\ q.body # "none"
  THEN [method |-> q.method, url |-> Path, hash |-> Sha1Hex(q.body), ts |-> 0]
  ELSE [method |-> q.method, url |-> Path, hash |-> "now", ts |-> q.at]

\* The fingerprints of the requests drawn
RequestKeys ==
  {GenerateRequestKey([method |-> m, body |-> b, auth |-> "none", at |-> 0]) :
     m \in Methods, b \in Bodies}

\* The time-salted fingerprints
FallbackKeys ==
  {GenerateRequestKey([method |-> m, body |-> "none", auth |-> "none",
                       at |-> t]) : m \in FallbackMethods, t \in 0..MaxNow}

\* A finally that every caller awaiting the promise runs
AllCleaners(r, mine) == mine

\* The calls that reach the finally of handleRequest when the pipeline of
\* r settles: the call that inserted the entry; a call that found the
\* entry has returned the promise before the try
Cleaners(r, mine) == {r}

\* A delete that leaves the map as it is
DeleteNothing(pr, key) == pr

\* pendingRequests.delete(requestKey)
DeleteEntry(pr, key) == {e \in pr : e.key # key}

\* A lookup that never finds an entry
PendingHasNever(pr, key) == FALSE

\* pendingRequests.has(requestKey)
PendingHas(pr, key) == \E e \in pr : e.key = key

\* pendingRequests.get(requestKey)
PendingGet(pr, key) == (CHOOSE e \in pr : e.key = key).owner

\* Owner of the entry for key, 0 when there is none
OwnerOf(key) ==
  IF \E e \in pendingRequests : e.key = key
  THEN PendingGet(pendingRequests, key) ELSE 0

\* extractAuthKey, authenticateRequest and validateClientKey: is the
\* request's credential a member of the auth-secret set?
Authenticated(q) == q.auth # "none" /\ q.auth \in store

\* handleRequest after `await generateRequestKey(request)`
Lookup(r, q) ==
  LET key == GenerateRequestKey(q) IN
  /\ foundAt' = [foundAt EXCEPT ![r] = OwnerOf(key)]
  /\ IF PendingHas(pendingRequests, key)
     THEN LET o == PendingGet(pendingRequests, key) IN
          /\ hpc' = [hpc EXCEPT ![r] =
                       IF hpc[o] = "done" THEN "done" ELSE "joined"]
          /\ resp' = [resp EXCEPT ![r] = resp[o]]
          /\ UNCHANGED <<pendingRequests, invocations>>
     ELSE /\ invocations' = [invocations EXCEPT ![r] = @ + 1]
          /\ pendingRequests' = pendingRequests \cup {[key |-> key, owner |-> r]}
          /\ hpc' = [hpc EXCEPT ![r] = "pending"]
          /\ UNCHANGED resp

\* handleRequest(request): a request arrives; a POST body is read and
\* digested asynchronously before the lookup
HandleRequest(r, m, b, a) ==
  /\ hpc[r] = "new"
  /\ IF r = 1 THEN TRUE ELSE hpc[r - 1] # "new"
  /\ LET q == [method |-> m, body |-> IF m = "POST" THEN b ELSE "none",
               auth |-> a, at |-> now]
     IN /\ hreq' = [hreq EXCEPT ![r] = q]
        /\ arrivedWhile' = [arrivedWhile EXCEPT ![r] =
                              OwnerOf(GenerateRequestKey(q))]
        /\ IF m = "POST"
           THEN /\ hpc' = [hpc EXCEPT ![r] = "keying"]
                /\ UNCHANGED <<pendingRequests, resp, invocations, foundAt>>
           ELSE Lookup(r, q)
  /\ UNCHANGED timers
  /\ UNCHANGED <<poolVars, breakerVars, retryVars, batchVars, extraVars>>

\* The digest of a POST body is ready
KeyReady(r) ==
  /\ hpc[r] = "keying"
  /\ Lookup(r, hreq[r])
  /\ UNCHANGED <<hreq, timers, arrivedWhile>>
  /\ UNCHANGED <<poolVars, breakerVars, retryVars, batchVars, extraVars>>

\* processRequest resolves: 401 unless authenticated, else the upstream's
\* answer (200); the owner and the requests that joined it get this response,
\* and the `finally` schedules the removal of the entry
ProcessRequest(r) ==
  /\ hpc[r] = "pending"
  /\ LET out == [status |-> IF Authenticated(hreq[r]) THEN 200 ELSE 401,
                 by |-> r]
         mine == {r} \cup {j \in Reqs : hpc[j] = "joined" /\ foundAt[j] = r}
     IN /\ resp' = [j \in Reqs |-> IF j \in mine THEN out ELSE resp[j]]
        /\ hpc' = [j \in Reqs |-> IF j \in mine THEN "done" ELSE hpc[j]]
        /\ timers' = timers \cup
                        {[key |-> GenerateRequestKey(hreq[r]), by |-> j] :
                           j \in Cleaners(r, mine)}
  /\ UNCHANGED <<hreq, pendingRequests, invocations, arrivedWhile, foundAt>>
  /\ UNCHANGED <<poolVars, breakerVars, retryVars, batchVars, extraVars>>

\* setTimeout(() => pendingRequests.delete(requestKey), REQUEST_DEDUP_TTL)
TimerFire(key, r) ==
  /\ [key |-> key, by |-> r] \in timers
  /\ timers' = timers \ {[key |-> key, by |-> r]}
  /\ pendingRequests' = DeleteEntry(pendingRequests, key)
  /\ UNCHANGED <<hreq, hpc, resp, invocations, arrivedWhile, foundAt>>
  /\ UNCHANGED <<poolVars, breakerVars, retryVars, batchVars, extraVars>>

NextHandler ==
  \/ \E r \in Reqs, m \in Methods, b \in Bodies, a \in Credentials :
       HandleRequest(r, m, b, a)
  \/ \E r \in Reqs : KeyReady(r)
  \/ \E r \in Reqs : ProcessRequest(r)
  \/ \E key \in RequestKeys, r \in Reqs : TimerFire(key, r)

\* Requests that all carry the valid client key
NextLifecycle ==
  \/ \E r \in Reqs, m \in Methods, b \in Bodies : HandleRequest(r, m, b, "A")
  \/ \E r \in Reqs : KeyReady(r)
  \/ \E r \in Reqs : ProcessRequest(r)
  \/ \E key \in RequestKeys, r \in Reqs : TimerFire(key, r)

\* Requests whose fingerprint is the time-salted one, and the clock
NextFallback ==
  \/ \E r \in Reqs, m \in FallbackMethods, a \in Credentials :
       HandleRequest(r, m, "none", a)
  \/ \E r \in Reqs : ProcessRequest(r)
  \/ \E key \in FallbackKeys, r \in Reqs : TimerFire(key, r)
  \/ Tick

\* ====================================================== circuit breaker ==
\* An execute that admits every call
NeverRejected(b, t) == FALSE

\* new CircuitBreaker(): nextAttempt is Date.now() at construction
NewBreaker == [state |-> "CLOSED", failureCount |-> 0, successCount |-> 0,
               nextAttempt |-> 0]

InitBreakerState ==
  /\ breaker = NewBreaker
  /\ inflight = 0
  /\ execLeft = MaxExec
  /\ consecFail = 0
  /\ rejectedOpen = FALSE

\* execute: `state === 'OPEN' && Date.now() < this.nextAttempt`: throw
IsRejected(b, t) == b.state = "OPEN" /\ t < b.nextAttempt

\* execute: an elapsed OPEN breaker turns HALF_OPEN before the call
Gate(b, t) ==
  IF b.state = "OPEN" /\ ~(t < b.nextAttempt)
  THEN [b EXCEPT !.state = "HALF_OPEN"] ELSE b

\* An onSuccess that never closes the breaker
OnSuccessStayHalfOpen(b) ==
  IF b.state = "HALF_OPEN"
  THEN [b EXCEPT !.failureCount = 0, !.successCount = b.successCount + 1]
  ELSE [b EXCEPT !.failureCount = 0]

\* onSuccess
OnSuccess(b) ==
  LET b1 == [b EXCEPT !.failureCount = 0] IN
  IF b.state = "HALF_OPEN"
  THEN IF b.successCount + 1 >= SuccessThreshold
       THEN [b1 EXCEPT !.state = "CLOSED", !.successCount = 0]
       ELSE [b1 EXCEPT !.successCount = b.successCount + 1]
  ELSE b1

\* An onFailure that counts but never opens
OnFailureCountOnly(b, t) ==
  [b EXCEPT !.successCount = 0, !.failureCount = b.failureCount + 1]

\* onFailure
OnFailure(b, t) ==
  LET b1 == [b EXCEPT !.successCount = 0, !.failureCount = b.failureCount + 1]
  IN IF b1.failureCount >= FailureThreshold
     THEN [b1 EXCEPT !.state = "OPEN", !.nextAttempt = t + BreakerTimeout]
     ELSE b1

\* execute(fn) up to `await fn()`
Execute ==
  /\ execLeft > 0
  /\ inflight < MaxInflight
  /\ execLeft' = execLeft - 1
  /\ IF IsRejected(breaker, now)
     THEN /\ rejectedOpen' = TRUE
          /\ UNCHANGED <<breaker, inflight>>
     ELSE /\ breaker' = Gate(breaker, now)
          /\ inflight' = inflight + 1
          /\ UNCHANGED rejectedOpen
  /\ UNCHANGED consecFail
  /\ UNCHANGED <<poolVars, handlerVars, retryVars, batchVars, extraVars>>

\* execute after `await fn()`: fn fulfilled
OpSucceeds ==
  /\ inflight > 0
  /\ inflight' = inflight - 1
  /\ breaker' = OnSuccess(breaker)
  /\ consecFail' = 0
  /\ UNCHANGED <<execLeft, rejectedOpen>>
  /\ UNCHANGED <<poolVars, handlerVars, retryVars, batchVars, extraVars>>

\* execute after `await fn()`: fn rejected
OpFails ==
  /\ inflight > 0
  /\ inflight' = inflight - 1
  /\ breaker' = OnFailure(breaker, now)
  /\ consecFail' = consecFail + 1
  /\ UNCHANGED <<execLeft, rejectedOpen>>
  /\ UNCHANGED <<poolVars, handlerVars, retryVars, batchVars, extraVars>>

NextBreaker ==
  \/ Execute
  \/ OpSucceeds
  \/ OpFails
  \/ Tick

\* ======================================================= fetchWithRetry ==
None == [status |-> 0, n |-> 0]
IdleFetch == [st |-> "idle", i |-> 0, usedKeys |-> {}, lastResponse |-> None,
              successfulResponse |-> None, value |-> None, delay |-> 0]

InitRetryState ==
  /\ fr = IdleFetch
  /\ received = <<>>
  /\ threwAt = {}
  /\ attempts = <<>>
  /\ evictions = <<>>
  /\ runsLeft = MaxRuns

\* What cache.load gives getApiKey: the local values, loaded from the
\* store when there are none yet
LocalValues == IF cache.loaded THEN cache.keys ELSE Members(store)

\* What fetch resolves with and what validateResponse would answer for
\* it, or "neterr" when fetch rejects; "serverok" is a 500 that the
\* validator accepts
FetchOutcomes == {"neterr", "valid", "invalid", "forbidden", "ratelimit",
                  "server", "serverok"}

Status(o) == CASE o = "valid" -> 200 [] o = "invalid" -> 200
               [] o = "forbidden" -> 403 [] o = "ratelimit" -> 429
               [] OTHER -> 500

\* A breaker that takes a 5xx answer for a failed call
ServerErrorRejects(o) == o \in {"neterr", "server", "serverok"}

\* `await fetch(url, requestOptions)` inside circuitBreaker.execute
\* rejects: only then does execute run onFailure
FetchRejects(o) == o = "neterr"

\* The responses that reach `await validateResponse(response.clone())`
ValidatorInvoked(o) == o \notin {"neterr", "forbidden", "ratelimit"}

\* isValid
IsValidResponse(o) == o \in {"valid", "serverok"}

Min(a, b) == IF a < b THEN a ELSE b

\* A backoff without the 5000 ms cap
BackoffUncapped(i) == BackoffBase * 2 ^ i

\* Math.min(100 * Math.pow(2, i), 5000)
Backoff(i) == Min(BackoffBase * 2 ^ i, MaxDelay)

\* The wait before the next iteration after a response: 429 waits
\* Math.min(1000 * (i + 1), 5000), an unvalidated 5xx backs off
StatusDelay(o, i) ==
  CASE o = "ratelimit" -> Min(RateLimitBase * (i + 1), MaxDelay)
    [] ValidatorInvoked(o) /\ ~IsValidResponse(o) /\ Status(o) >= 500
         -> Backoff(i)
    [] OTHER -> 0

\* A loop that never looks at usedKeys
NeverTried(f, k) == FALSE

\* usedKeys.has(selectedKey)
AlreadyTried(f, k) == k \in f.usedKeys

\* A return that forgets the last response
ReturnSuccessOnly(f) == f.successfulResponse

\* return successfulResponse || lastResponse
ReturnValue(f) ==
  IF f.successfulResponse # None THEN f.successfulResponse ELSE f.lastResponse

\* The loop ends (break, or i reaches maxRetries) and the function returns
Return(f) == [f EXCEPT !.st = "returned", !.value = ReturnValue(f)]

\* A loop that goes on without counting the iteration
ContinueSameIndex(f) == f

\* `continue` and the end of the loop body: i++ and the loop test
Continue(f) ==
  IF f.i + 1 < MaxRetries THEN [f EXCEPT !.i = f.i + 1]
  ELSE Return([f EXCEPT !.i = f.i + 1])

\* A catch that never rethrows
CatchSwallow(f) == Continue(f)

\* A catch that rethrows at once
CatchRethrow(f) == [f EXCEPT !.st = "threw"]

\* catch: back off and go on, or rethrow on the last iteration
Catch(f) ==
  IF f.i < MaxRetries - 1 THEN Continue([f EXCEPT !.delay = Backoff(f.i)])
  ELSE [f EXCEPT !.st = "threw"]

\* fetchWithRetry(options) is called
StartFetch ==
  /\ fr.st # "running"
  /\ runsLeft > 0
  /\ runsLeft' = runsLeft - 1
  /\ fr' = [IdleFetch EXCEPT !.st = "running"]
  /\ received' = <<>>
  /\ threwAt' = {}
  /\ attempts' = <<>>
  /\ evictions' = <<>>
  /\ UNCHANGED <<poolVars, handlerVars, breakerVars, batchVars, extraVars>>

\* One iteration in which getApiKey throws (the key set cannot be loaded)
\* or yields no key (the local values are empty)
AttemptNoKey ==
  /\ fr.st = "running"
  /\ fr' = Catch(fr)
  /\ threwAt' = threwAt \cup {fr.i}
  /\ attempts' = Append(attempts, [key |-> "none", out |-> "nokey",
                                    validated |-> FALSE])
  /\ UNCHANGED <<received, runsLeft, evictions>>
  /\ UNCHANGED <<poolVars, handlerVars, breakerVars, batchVars, extraVars>>

\* One iteration in which getApiKey returns a key tried before
AttemptSkip(k) ==
  /\ fr.st = "running"
  /\ k \in Range(LocalValues) /\ AlreadyTried(fr, k)
  /\ fr' = Continue([fr EXCEPT !.delay = 0])
  /\ UNCHANGED <<received, threwAt, runsLeft, attempts, evictions>>
  /\ UNCHANGED <<poolVars, handlerVars, breakerVars, batchVars, extraVars>>

\* One iteration with a fresh key k: the breaker rejects the call, or
\* fetch runs with outcome o; on 403 removeApiKey(k) runs, its srem
\* succeeding or not
Attempt(k, o, sremOk) ==
  /\ fr.st = "running"
  /\ k \in Range(LocalValues) /\ ~AlreadyTried(fr, k)
  /\ LET f1 == [fr EXCEPT !.usedKeys = @ \cup {k}]
         r == [status |-> Status(o), n |-> fr.i + 1]
         f2 == [f1 EXCEPT !.lastResponse = r,
                          !.delay = StatusDelay(o, fr.i)]
         loaded == [loaded |-> TRUE, keys |-> LocalValues]
         open == IsRejected(breaker, now)
     IN IF open \/ FetchRejects(o)
        THEN /\ fr' = Catch(f1)
             /\ threwAt' = threwAt \cup {fr.i}
             /\ breaker' = IF open THEN breaker
                           ELSE OnFailure(Gate(breaker, now), now)
             /\ consecFail' = IF open THEN consecFail ELSE consecFail + 1
             /\ rejectedOpen' = (rejectedOpen \/ open)
             /\ attempts' = Append(attempts,
                              [key |-> k, out |-> IF open THEN "open" ELSE o,
                               validated |-> FALSE])
             /\ cache' = loaded
             /\ UNCHANGED <<received, store, evictions>>
        ELSE /\ breaker' = OnSuccess(Gate(breaker, now))
             /\ consecFail' = 0
             /\ received' = Append(received, r)
             /\ attempts' = Append(attempts,
                              [key |-> k, out |-> o,
                               validated |-> ValidatorInvoked(o)])
             /\ fr' = IF IsValidResponse(o)
                      THEN Return([f2 EXCEPT !.successfulResponse = r])
                      ELSE Continue(f2)
             /\ store' = IF o = "forbidden" /\ redisOn /\ sremOk
                         THEN store \ {k} ELSE store
             /\ cache' = IF o = "forbidden" THEN RemoveKey(loaded, k)
                         ELSE loaded
             /\ evictions' = IF o = "forbidden"
                             THEN Append(evictions, [key |-> k, srem |-> redisOn])
                             ELSE evictions
             /\ UNCHANGED <<threwAt, rejectedOpen>>
  /\ UNCHANGED <<runsLeft, inflight, execLeft>>
  /\ UNCHANGED <<now, redisOn, duration, timestamp, loadingPromise,
                 kv, waiters, pc, op, arg, res, runq, counter, syncIssued,
                 opsLeft, seen, last, picks, picksVals, evictedDone,
                 staleReturn>>
  /\ UNCHANGED <<handlerVars, batchVars, extraVars>>

\* One pass through the body of `for (let i = 0; i < maxRetries; i++)`
Iteration ==
  \/ AttemptNoKey
  \/ \E k \in Keys : AttemptSkip(k)
  \/ \E k \in Keys, o \in FetchOutcomes, sremOk \in BOOLEAN :
       Attempt(k, o, sremOk)

NextRetry ==
  \/ StartFetch
  \/ AttemptNoKey
  \/ \E k \in Keys : AttemptSkip(k)
  \/ \E k \in Keys, o \in FetchOutcomes, sremOk \in BOOLEAN :
       Attempt(k, o, sremOk)
  \/ Tick

\* ------------------------------------------------- the delays of the loop
\* The outcomes of an iteration after which the loop sleeps
DelayKinds == {"ratelimit", "server", "neterr"}

InitDelayState == waits = <<>>

\* The setTimeout of iteration i: the catch block's for a rejected fetch,
\* the status policy's for a response
WaitAfter(o, i) == IF FetchRejects(o) THEN Backoff(i) ELSE StatusDelay(o, i)

\* Iteration i = Len(waits) of a loop of MaxAttempts iterations ends with
\* outcome o and sleeps; a throw in the last iteration is rethrown with no
\* sleep
Sleep(o) ==
  /\ Len(waits) < MaxAttempts
  /\ FetchRejects(o) => Len(waits) < MaxAttempts - 1
  /\ waits' = Append(waits, [i |-> Len(waits), after |-> o,
                             ms |-> WaitAfter(o, Len(waits))])
  /\ UNCHANGED <<poolVars, handlerVars, breakerVars, retryVars, batchVars,
                 semVars, keyVars, credVars>>

NextDelay == \E o \in DelayKinds : Sleep(o)

\* ======================================================= translateBatch ==
Texts == {"a", "b", "c"}
TextLists == UNION {[1..n -> Texts] : n \in 0..MaxLen}
Unfilled == [from |-> "undefined", kind |-> "undefined"]
EmptyMap == [t \in {} |-> Unfilled]

InitBatchState(lists, hits) ==
  /\ textList \in lists
  /\ cacheHits \in hits
  /\ cachedTranslations = EmptyMap
  /\ textsToTranslate = <<>>
  /\ translations = <<>>
  /\ task = <<>>
  /\ semaphore = [current |-> 0, queue |-> <<>>]
  /\ completed = <<>>
  /\ unusable = {}
  /\ results = <<>>
  /\ bst = "init"
  /\ written = {}

\* A batch that translates every occurrence
KeepAll(tl) == tl

\* [...new Set(textList)]: the distinct texts in order of first occurrence
UniqueTexts(tl) ==
  LET F[i \in 0..Len(tl)] ==
        IF i = 0 THEN <<>>
        ELSE IF tl[i] \in Range(F[i - 1]) THEN F[i - 1]
        ELSE Append(F[i - 1], tl[i])
  IN F[Len(tl)]

\* cacheService.getMultiple: a record for every text the cache holds
GetMultiple(texts) ==
  [t \in Range(texts) \cap cacheHits |-> [from |-> t, kind |-> "cached"]]

\* How the retry executor of one text ends, or "cached" when
\* translateSingleText finds the text in the cache first
ExecutorOutcomes == {"cached", "valid", "notok", "null", "threw"}

\* translateSingleText: the record it resolves with
RecordFor(text, o) ==
  CASE o = "cached" -> [from |-> text, kind |-> "cached"]
    [] o = "valid" -> [from |-> text, kind |-> "translated"]
    [] OTHER -> [from |-> text, kind |-> "original"]

\* Semaphore.acquire, called by every task in map order
AcquireAll(n) ==
  [current |-> IF n < SemaphoreMax THEN n ELSE SemaphoreMax,
   queue |-> [j \in 1..(IF n > SemaphoreMax THEN n - SemaphoreMax ELSE 0)
                |-> SemaphoreMax + j]]

\* A release that gives the permit back and resolves the head as well
ReleaseAndResolve(s) ==
  [current |-> s.current - 1,
   queue |-> IF Len(s.queue) > 0 THEN Tail(s.queue) ELSE s.queue]

\* Semaphore.release
Release(s) ==
  IF Len(s.queue) > 0 THEN [s EXCEPT !.queue = Tail(s.queue)]
  ELSE [s EXCEPT !.current = s.current - 1]

\* A collection that files results in completion order
PlaceByCompletion(trs, i, n, rec) == [trs EXCEPT ![n + 1] = rec]

\* Promise.all: the value of the i-th promise goes to position i
PlaceResult(trs, i, n, rec) == [trs EXCEPT ![i] = rec]

IndexOf(s, t) == CHOOSE i \in 1..Len(s) : s[i] = t

\* textsToTranslate.forEach((text, idx) => cachedTranslations.set(...))
Merged(ct, ttt, trs) ==
  [t \in (DOMAIN ct) \cup Range(ttt) |->
     IF t \in Range(ttt) THEN trs[IndexOf(ttt, t)] ELSE ct[t]]

\* results[index] = cachedTranslations.get(text) for every index of text
BuildResults(tl, ct) ==
  [i \in 1..Len(tl) |-> IF tl[i] \in DOMAIN ct THEN ct[tl[i]] ELSE Unfilled]

\* translateSingleText: scheduleAsync(() => cacheService.set(text, ...,
\* result)) on the success path only
SetWrites(rec) == IF rec.kind = "translated" THEN {rec} ELSE {}

\* translateBatch: scheduleAsync(() => cacheService.setMultiple(toCache))
\* with every element of translations
SetMultipleWrites(trs) == Range(trs)

\* translateBatch up to `await Promise.all(...)`, or to its return when
\* every unique text is cached
StartBatch ==
  /\ bst = "init"
  /\ LET ct == GetMultiple(UniqueTexts(textList))
         ttt == SelectSeq(UniqueTexts(textList), LAMBDA t : t \notin DOMAIN ct)
         n == Len(ttt)
     IN /\ cachedTranslations' = ct
        /\ textsToTranslate' = ttt
        /\ translations' = [i \in 1..n |-> Unfilled]
        /\ semaphore' = AcquireAll(n)
        /\ task' = [i \in 1..n |->
                      IF i <= SemaphoreMax THEN "running" ELSE "waiting"]
        /\ results' = IF n = 0 THEN BuildResults(textList, ct) ELSE results
        /\ bst' = IF n = 0 THEN "returned" ELSE "translating"
  /\ UNCHANGED <<textList, cacheHits, completed, unusable, written>>
  /\ UNCHANGED <<poolVars, handlerVars, breakerVars, retryVars, extraVars>>

\* translateWithSemaphore for task i settles with executor outcome o; the
\* last fulfilment resumes translateBatch, which hands the new translations
\* to the cache and returns; a rejection rejects it
TaskSettle(i, o) ==
  /\ i \in 1..Len(task) /\ task[i] = "running"
  /\ LET sem == Release(semaphore)
         woken == IF Len(semaphore.queue) > 0 THEN Head(semaphore.queue) ELSE 0
         tk == [j \in 1..Len(task) |->
                  IF j = i THEN "settled"
                  ELSE IF j = woken THEN "running" ELSE task[j]]
         trs == IF o = "threw" THEN translations
                ELSE PlaceResult(translations, i, Len(completed),
                                 RecordFor(textsToTranslate[i], o))
         alldone == \A j \in 1..Len(tk) : tk[j] = "settled"
         own == RecordFor(textsToTranslate[i], o)
         ct == Merged(cachedTranslations, textsToTranslate, trs)
     IN /\ semaphore' = sem
        /\ task' = tk
        /\ translations' = trs
        /\ IF bst = "translating" /\ o = "threw"
           THEN /\ bst' = "threw"
                /\ written' = written
                /\ UNCHANGED <<cachedTranslations, results>>
           ELSE IF bst = "translating" /\ alldone
           THEN /\ bst' = "returned"
                /\ cachedTranslations' = ct
                /\ results' = BuildResults(textList, ct)
                /\ written' = written \cup SetWrites(own) \cup SetMultipleWrites(trs)
           ELSE /\ written' = written \cup SetWrites(own)
                /\ UNCHANGED <<bst, cachedTranslations, results>>
  /\ completed' = Append(completed, i)
  /\ unusable' = IF o \in {"notok", "null", "threw"}
                 THEN unusable \cup {i} ELSE unusable
  /\ UNCHANGED <<textList, cacheHits, textsToTranslate>>
  /\ UNCHANGED <<poolVars, handlerVars, breakerVars, retryVars, extraVars>>

NextBatch ==
  \/ StartBatch
  \/ \E i \in 1..MaxLen, o \in ExecutorOutcomes : TaskSettle(i, o)

\* ============================================================ semaphore ==
\* The tasks that share the semaphore: enough to queue two of them
SemCallers == 1..(SemaphoreMax + 2)

InitSemState ==
  /\ sp = [p \in SemCallers |-> "idle"]
  /\ ticket = [p \in SemCallers |-> 0]
  /\ nextTicket = 1

\* A release that resolves the waiter queued last
WokenLast(s) == s.queue[Len(s.queue)]

\* A release that drops the resolver it shifted without calling it
NoneWoken(s) == 0

\* release: `const resolve = this.queue.shift(); resolve()`
Woken(s) == Head(s.queue)

\* An admission test that is off by one
HasPermitOrAtMax(s) == s.current <= SemaphoreMax

\* acquire: `if (this.current < this.max)`
HasPermit(s) == s.current < SemaphoreMax

\* acquire(): take a permit at once, or queue a resolver and wait
Acquire(p) ==
  /\ sp[p] = "idle"
  /\ nextTicket <= MaxExec
  /\ nextTicket' = nextTicket + 1
  /\ ticket' = [ticket EXCEPT ![p] = nextTicket]
  /\ IF HasPermit(semaphore)
     THEN /\ semaphore' = [semaphore EXCEPT !.current = @ + 1]
          /\ sp' = [sp EXCEPT ![p] = "granted"]
     ELSE /\ semaphore' = [semaphore EXCEPT !.queue = Append(@, p)]
          /\ sp' = [sp EXCEPT ![p] = "waiting"]
  /\ UNCHANGED <<textList, cacheHits, cachedTranslations, textsToTranslate,
                 translations, task, completed, unusable, results, bst,
                 written>>
  /\ UNCHANGED <<poolVars, handlerVars, breakerVars, retryVars, keyVars,
                 credVars, delayVars>>

\* The caller resumes after `await this.semaphore.acquire()`
ResumeAcquire(p) ==
  /\ sp[p] \in {"granted", "woken"}
  /\ sp' = [sp EXCEPT ![p] = "holding"]
  /\ UNCHANGED <<ticket, nextTicket, batchVars>>
  /\ UNCHANGED <<poolVars, handlerVars, breakerVars, retryVars, keyVars,
                 credVars, delayVars>>

\* release(): hand the permit to the first waiter, or give it back
ReleasePermit(p) ==
  /\ sp[p] = "holding"
  /\ semaphore' = Release(semaphore)
  /\ sp' = [q \in SemCallers |->
              IF q = p THEN "idle"
              ELSE IF Len(semaphore.queue) > 0 /\ q = Woken(semaphore)
              THEN "woken" ELSE sp[q]]
  /\ UNCHANGED <<ticket, nextTicket>>
  /\ UNCHANGED <<textList, cacheHits, cachedTranslations, textsToTranslate,
                 translations, task, completed, unusable, results, bst,
                 written>>
  /\ UNCHANGED <<poolVars, handlerVars, breakerVars, retryVars, keyVars,
                 credVars, delayVars>>

NextSemaphore ==
  \/ \E p \in SemCallers : Acquire(p)
  \/ \E p \in SemCallers : ResumeAcquire(p)
  \/ \E p \in SemCallers : ReleasePermit(p)

\* The acquire calls of a run in which every holder goes on to release
MaxAcquires == SemaphoreMax + 3

\* The callers are interchangeable: they make their first acquire in the
\* order of their numbers, and acquire again in any order
AcquireWithin(p) ==
  /\ nextTicket <= MaxAcquires
  /\ \A q \in SemCallers : q < p => ticket[q] > 0
  /\ Acquire(p)

NextPermits ==
  \/ \E p \in SemCallers : AcquireWithin(p)
  \/ \E p \in SemCallers : ResumeAcquire(p)
  \/ \E p \in SemCallers : ReleasePermit(p)

\* ===================================================== generateCacheKey ==
\* Strings are sequences of characters
Alphabet == {"a", "|"}
Strs(n) == UNION {[1..k -> Alphabet] : k \in 0..n}
Auto == <<"a", "u", "t", "o">>
KeyInputs ==
  [text : Strs(MaxStr), src : Strs(MaxStr), tgt : Strs(1) \ {<<>>}]
NoKeyCall == [in |-> [text |-> <<>>, src |-> <<>>, tgt |-> <<>>],
              key |-> [kind |-> "none", data |-> <<>>]]

InitKeyState ==
  /\ keyCache = <<>>
  /\ prevCall = NoKeyCall
  /\ curCall = NoKeyCall

\* sourceLang || 'auto'
SrcOrAuto(src) == IF src = <<>> THEN Auto ELSE src

\* `${text}|${sourceLang || 'auto'}|${targetLang}`
CacheIdentifier(c) ==
  c.text \o <<"|">> \o SrcOrAuto(c.src) \o <<"|">> \o c.tgt

\* TextEncoder.encode: the byte of each character
Byte(ch) == CASE ch = "a" -> 97 [] ch = "|" -> 124 [] ch = "u" -> 117
              [] ch = "t" -> 116 [] OTHER -> 111

Encode(id) == [i \in 1..Len(id) |-> Byte(id[i])]

\* The key computed for an identifier: the base64url text of its bytes
\* when it is short, else its SHA-1 digest; both taken as one-to-one on
\* the bytes
ComputeKey(id) ==
  IF Len(id) < DirectLimit
  THEN [kind |-> "base64", data |-> Encode(id)]
  ELSE [kind |-> "sha1", data |-> Encode(id)]

\* this.keyCache.has(cacheIdentifier)
Memo(kc, id) == {i \in 1..Len(kc) : kc[i].id = id}

\* generateCacheKey(text, sourceLang, targetLang)
GenerateCacheKey(c) ==
  LET id == CacheIdentifier(c)
      hit == Memo(keyCache, id)
      key == IF hit # {} THEN keyCache[CHOOSE i \in hit : TRUE].key
             ELSE ComputeKey(id)
      room == IF Len(keyCache) >= MaxKeyCacheSize THEN Tail(keyCache)
              ELSE keyCache
  IN /\ keyCache' = IF hit # {} THEN keyCache
                    ELSE Append(room, [id |-> id, key |-> key])
     /\ prevCall' = curCall
     /\ curCall' = [in |-> c, key |-> key]
     /\ UNCHANGED <<poolVars, handlerVars, breakerVars, retryVars, batchVars,
                    semVars, credVars, delayVars>>

NextCacheKey == \E c \in KeyInputs : GenerateCacheKey(c)

\* ======================================================= extractAuthKey ==
\* Header values are sequences of tokens: a word ("Bearer" in two
\* spellings, a key "k") or one whitespace character
Tokens == {"Bearer", "bearer", " ", "k"}
HeaderValues == UNION {[1..n -> Tokens] : n \in 0..MaxHdr}
KeyValues == UNION {[1..n -> {" ", "k"}] : n \in 0..2}
Segments == {<<>>, <<"k">>}
Routes == {"translate", "proxy"}
Pending == <<"pending">>
NoRequest == [route |-> "none", seg |-> <<>>, goog |-> <<>>, auth |-> <<>>]

InitCredState(reqs) ==
  /\ creq \in reqs
  /\ cred = Pending

CredRequests ==
  [route : Routes, seg : Segments, goog : KeyValues, auth : HeaderValues]

\* String.prototype.trim
RECURSIVE TrimLeft(_)
TrimLeft(s) ==
  IF s # <<>> /\ Head(s) = " " THEN TrimLeft(Tail(s)) ELSE s

RECURSIVE TrimRight(_)
TrimRight(s) ==
  IF s # <<>> /\ s[Len(s)] = " " THEN TrimRight(SubSeq(s, 1, Len(s) - 1))
  ELSE s

Trim(s) == TrimRight(TrimLeft(s))

\* request.headers.get(name): the value without leading and trailing
\* whitespace, empty when the header is absent
HeadersGet(raw) == Trim(raw)

\* authHeader.replace(/^Bearer\s+/i, '')
StripBearer(s) ==
  IF Len(s) >= 2 /\ s[1] \in {"Bearer", "bearer"} /\ s[2] = " "
  THEN TrimLeft(Tail(s)) ELSE s

\* extractAuthKey(request)
ExtractAuthKey(q) ==
  LET pathKey == IF q.route = "translate" THEN q.seg ELSE <<>>
      googleApiKey == HeadersGet(q.goog)
      authHeader == HeadersGet(q.auth)
      key == Trim(StripBearer(authHeader))
  IN IF pathKey # <<>> THEN Trim(pathKey)
     ELSE IF googleApiKey # <<>> THEN Trim(googleApiKey)
     ELSE IF authHeader # <<>> /\ key # <<>> THEN key
     ELSE <<>>

\* The credential each route validates: handleTranslate reads
\* request.params.authKey, the proxy route calls extractAuthKey
RouteCredential(q) ==
  IF q.route = "translate" THEN q.seg ELSE ExtractAuthKey(q)

\* The route handler derives the credential of the request
DeriveCredential ==
  /\ cred = Pending
  /\ cred' = RouteCredential(creq)
  /\ UNCHANGED creq
  /\ UNCHANGED <<poolVars, handlerVars, breakerVars, retryVars, batchVars,
                 semVars, keyVars, delayVars>>

NextCred == DeriveCredential

\* ======================================================= specifications ==
InitRest ==
  /\ InitHandlerState
  /\ InitBreakerState
  /\ InitRetryState
  /\ InitBatchState({<<>>}, {{}})
  /\ InitSemState
  /\ InitKeyState
  /\ InitDelayState
  /\ InitCredState({NoRequest})

InitPool == InitPoolState(CacheDuration) /\ InitRest

NextPool ==
  \/ \E p \in Callers : GetNextKey(p)
  \/ \E p \in Callers, k \in Keys : RemoveApiKey(p, k)
  \/ \E p \in Callers : KvServe(p)
  \/ \E p \in Callers : SmembersReply(p)
  \/ \E p \in Callers : ResumeLoad(p)
  \/ \E p \in Callers : SremReply(p)
  \/ \E k \in Keys : StoreAdd(k)
  \/ Tick

SpecPool == InitPool /\ [][NextPool]_vars

\* The pool with fewer concurrent callers
NextRotate ==
  \/ \E p \in 1..FewCallers : GetNextKey(p)
  \/ \E p \in 1..FewCallers, k \in Keys : RemoveApiKey(p, k)
  \/ \E p \in Callers : KvServe(p)
  \/ \E p \in Callers : SmembersReply(p)
  \/ \E p \in Callers : ResumeLoad(p)
  \/ \E p \in Callers : SremReply(p)
  \/ \E k \in Keys : StoreAdd(k)
  \/ Tick

SpecRotate == InitPool /\ [][NextRotate]_vars

InitAuth == InitPoolState(CacheDuration * 2) /\ InitRest

NextAuth ==
  \/ \E p \in 1..FewCallers, k \in Keys : ValidateClientKey(p, k)
  \/ \E p \in Callers : KvServe(p)
  \/ \E p \in Callers : SmembersReply(p)
  \/ \E p \in Callers : ResumeLoad(p)
  \/ \E p \in Callers : SismemberReply(p)
  \/ Tick

SpecAuth == InitAuth /\ [][NextAuth]_vars

InitHandler ==
  /\ InitPoolState(CacheDuration) /\ redisOn /\ store = {"A"}
  /\ InitRest

SpecHandler == InitHandler /\ [][NextHandler]_vars

\* setTimeout callbacks run: every scheduled removal fires
SpecHandlerLive ==
  /\ InitHandler /\ [][NextLifecycle]_vars
  /\ \A key \in RequestKeys : \A r \in Reqs : WF_vars(TimerFire(key, r))

SpecFallback == InitHandler /\ [][NextFallback]_vars

InitFetch ==
  /\ InitPoolState(CacheDuration) /\ redisOn /\ store = Keys
  /\ InitRest

SpecBreaker == InitFetch /\ [][NextBreaker]_vars

SpecRetry == InitFetch /\ [][NextRetry]_vars

\* getApiKey, the upstream call and the delay of an iteration all settle,
\* so a call that is in its loop takes its next iteration
SpecRetryLive == SpecRetry /\ WF_vars(Iteration)

InitBatch ==
  /\ InitPoolState(CacheDuration) /\ redisOn /\ store = Keys
  /\ InitHandlerState
  /\ InitBreakerState
  /\ InitRetryState
  /\ InitBatchState(TextLists, SUBSET Texts)
  /\ InitSemState
  /\ InitKeyState
  /\ InitDelayState
  /\ InitCredState({NoRequest})

SpecBatch == InitBatch /\ [][NextBatch]_vars

SpecSemaphore == InitFetch /\ [][NextSemaphore]_vars

SpecPermits == InitFetch /\ [][NextPermits]_vars

\* translateWithSemaphore releases in a finally, and the continuation of a
\* resolved acquire is a microtask: both steps are taken once enabled
SpecSemaphoreLive ==
  /\ SpecPermits
  /\ \A p \in SemCallers : WF_vars(ReleasePermit(p))
  /\ \A p \in SemCallers : WF_vars(ResumeAcquire(p))

SpecCacheKey == InitFetch /\ [][NextCacheKey]_vars

SpecDelay == InitFetch /\ [][NextDelay]_vars

InitCred ==
  /\ InitPoolState(CacheDuration) /\ redisOn /\ store = Keys
  /\ InitHandlerState
  /\ InitBreakerState
  /\ InitRetryState
  /\ InitBatchState({<<>>}, {{}})
  /\ InitSemState
  /\ InitKeyState
  /\ InitDelayState
  /\ InitCredState(CredRequests)

SpecCred == InitCred /\ [][NextCred]_vars

TypeOKPool ==
  /\ now \in 0..MaxNow
  /\ loadingPromise \in 0..NumCallers
  /\ counter \in -1..Cardinality(Keys)
  /\ \A p \in Callers : pc[p] \in {"idle", "own", "join", "srem", "ismember"}

\* ============================================================== claims ==

\* C1: for each credential set at most one KV members(set) call is in
\* flight at any instant, whatever the outcome of the load; callers that
\* arrive during a load join it.
InflightLoads == {p \in Callers : kv[p].kind = "smembers"}

C1_SingleInflightLoad == Cardinality(InflightLoads) <= 1

\* C5: on values held constant with size N >= 1, over any K consecutive
\* selections the counts of any two indices differ by at most
\* ceil(K/N) - floor(K/N), and every selection returns
\* values[(previous counter + 1) mod N].
PickCount(i, j, x) == Cardinality({n \in i..j : picks[n].idx = x})

C5_RoundRobinFair ==
  LET N == Len(picksVals) IN
  N >= 1 =>
    /\ \A i \in 1..Len(picks) : \A j \in i..Len(picks) :
         \A a \in 0..(N - 1) : \A b \in 0..(N - 1) :
           PickCount(i, j, a) - PickCount(i, j, b)
             <= (IF (j - i + 1) % N = 0 THEN 0 ELSE 1)
    /\ \A n \in 1..Len(picks) :
         /\ picks[n].idx = (CounterOrZero(picks[n].prev) + 1) % N
         /\ picks[n].key = picksVals[picks[n].idx + 1]
         /\ n > 1 => picks[n].prev = picks[n - 1].idx

C5_Witness == Len(picksVals) = 2 /\ Len(picks) >= 3

\* C8: once evict(set, k) has completed and k is not added to the store
\* again, no later load(set) returns a sequence containing k, from the
\* cache or from a refresh, in every interleaving with concurrent loads.
C8_EvictedNeverReturned == ~staleReturn

LookedUp == {r \in Reqs : hpc[r] \in {"pending", "joined", "done"}}

\* C2 as stated: a request that arrives while an entry with its
\* fingerprint is in the pending map (before the first one's entry is
\* removed) does not invoke processRequest and receives the response of
\* the request that owns that entry.
C2_AsStated ==
  \A r \in LookedUp :
    arrivedWhile[r] # 0 =>
      /\ invocations[r] = 0
      /\ hpc[r] = "done" => resp[r] = resp[arrivedWhile[r]]

\* C2 as amended: a request whose lookup (made once its fingerprint has
\* been computed) finds an entry with its fingerprint in the pending map
\* does not invoke processRequest; the owner of the entry invoked it
\* exactly once, and both receive the same response.
C2_Coalesced ==
  \A r \in LookedUp :
    foundAt[r] # 0 =>
      /\ invocations[r] = 0
      /\ invocations[foundAt[r]] = 1
      /\ hpc[r] = "done" <=> hpc[foundAt[r]] = "done"
      /\ hpc[r] = "done" => resp[r] = resp[foundAt[r]]

C2_Witness ==
  \E r \in Reqs :
    /\ hreq[r].method = "POST" /\ foundAt[r] # 0
    /\ hpc[r] = "done" /\ resp[r] = resp[foundAt[r]]
    /\ resp[r].status = 200

\* C3: every request that carries no client credential, or one that is
\* not in the auth-secret set, is answered with status 401, in every
\* interleaving with other requests.
C3_Unauthenticated401 ==
  \A r \in Reqs :
    (hpc[r] = "done" /\ ~Authenticated(hreq[r])) => resp[r].status = 401

\* C4: whenever translateBatch returns, its array has the length of
\* textList, every position is filled, element i is the translation record
\* of textList[i], and positions holding the same text hold the same
\* record, for any duplicates, cached subset and completion order.
C4_OrderPreserved ==
  bst = "returned" =>
    /\ Len(results) = Len(textList)
    /\ \A i \in 1..Len(textList) :
         /\ results[i] # Unfilled
         /\ results[i].from = textList[i]
         /\ \A j \in 1..Len(textList) :
              textList[i] = textList[j] => results[i] = results[j]

C4_Witness ==
  /\ bst = "returned"
  /\ \E i \in 1..Len(textList) : \E j \in 1..Len(textList) :
       i # j /\ textList[i] = textList[j]
  /\ Len(completed) >= 2 /\ completed[1] > completed[2]

\* C6: every failed execution that brings the run of consecutive failures
\* to failureThreshold or more leaves the breaker Open with nextAttempt =
\* (time of that failure) + timeout, and while the breaker is Open and
\* now < nextAttempt no execute call invokes its operation.
C6_BreakerOpens ==
  [][/\ (consecFail' = consecFail + 1 /\ consecFail' >= FailureThreshold)
          => (breaker'.state = "OPEN"
              /\ breaker'.nextAttempt = now + BreakerTimeout)
     /\ (breaker.state = "OPEN" /\ now < breaker.nextAttempt)
          => inflight' <= inflight]_vars

C6_Witness ==
  /\ breaker.state = "OPEN" /\ consecFail >= FailureThreshold
  /\ rejectedOpen /\ now < breaker.nextAttempt

\* C7: whenever the retry executor of one text ends without a usable
\* response, translateBatch still completes normally and the record of
\* that text carries the original input.
C7_BatchSurvivesFailure ==
  \A i \in unusable :
    /\ bst # "threw"
    /\ bst = "returned" =>
         \A j \in 1..Len(textList) :
           textList[j] = textsToTranslate[i] => results[j].kind = "original"

\* fetchWithRetry has ended, no attempt validated, one or more attempts
\* received a response
EndedUnvalidated ==
  /\ fr.st \in {"returned", "threw"}
  /\ fr.successfulResponse = None
  /\ received # <<>>

\* C10 as stated: if no attempt validated but at least one received a
\* response, fetchWithRetry returns the last received response, also when
\* the final attempt throws.
C10_AsStated ==
  EndedUnvalidated =>
    fr.st = "returned" /\ fr.value = received[Len(received)]

\* C10 as amended: if no attempt validated but at least one received a
\* response, fetchWithRetry returns the last received response whatever
\* the earlier attempts did, unless the final attempt (i = maxRetries - 1)
\* throws: then it rethrows that error.
C10_LastResponse ==
  EndedUnvalidated =>
    IF (MaxRetries - 1) \in threwAt
    THEN fr.st = "threw"
    ELSE fr.st = "returned" /\ fr.value = received[Len(received)]

C10_Witness ==
  /\ EndedUnvalidated /\ threwAt # {}
  /\ fr.st = "returned" /\ fr.value = received[Len(received)]

\* fetchWithRetry has ended and no attempt received a response
EndedWithoutResponse ==
  /\ fr.st \in {"returned", "threw"}
  /\ received = <<>>

\* C11 as stated: if no attempt produced any response (every attempt
\* threw, was rejected by the open breaker, or was skipped),
\* fetchWithRetry returns null.
C11_AsStated ==
  EndedWithoutResponse => (fr.st = "returned" /\ fr.value = None)

\* C11 as amended: if no attempt produced any response, fetchWithRetry
\* returns null unless its final iteration (i = maxRetries - 1) ended in
\* the catch: then it rethrows that error.
C11_NullOrRethrow ==
  EndedWithoutResponse =>
    IF (MaxRetries - 1) \in threwAt
    THEN fr.st = "threw"
    ELSE fr.st = "returned" /\ fr.value = None

C11_Witness ==
  /\ EndedWithoutResponse /\ threwAt # {}
  /\ fr.st = "returned" /\ fr.value = None

\* The attempts of this call that received status 403
ForbiddenAttempts == {j \in 1..Len(attempts) : attempts[j].out = "forbidden"}

\* C12: when an attempt with credential k receives 403, k is removed from
\* the local values and srem(set, k) is issued exactly once in that call,
\* the 403 is not taken as the successful response, every later attempt
\* of the call uses another credential, and if a later attempt validates,
\* its response is the result.
C12_ForbiddenEvicts ==
  \A j \in ForbiddenAttempts :
    LET k == attempts[j].key
    IN /\ Cardinality({e \in 1..Len(evictions) :
                         evictions[e].key = k /\ evictions[e].srem}) = 1
       /\ k \notin Range(cache.keys)
       /\ fr.successfulResponse.status # 403
       /\ \A m \in (j + 1)..Len(attempts) : attempts[m].key # k
       /\ (fr.st = "returned" /\ attempts[Len(attempts)].out = "valid")
            => fr.value = received[Len(received)] /\ fr.value.status = 200

C12_Witness ==
  /\ fr.st = "returned"
  /\ \E j \in ForbiddenAttempts : j < Len(attempts)
  /\ attempts[Len(attempts)].out = "valid"
  /\ fr.value = received[Len(received)]

\* <<text, sourceLang or "auto", targetLang>>
Triple(c) == <<c.text, SrcOrAuto(c.src), c.tgt>>

\* C13: two calls of generateCacheKey give the same key exactly when
\* their triples (text, sourceLang or "auto", targetLang) are equal, also
\* for texts and language codes that contain the separator.
C13_KeyIffTriple ==
  (prevCall # NoKeyCall /\ curCall # NoKeyCall) =>
    ((prevCall.key = curCall.key) <=> (Triple(prevCall.in) = Triple(curCall.in)))

Permitted == {p \in SemCallers : sp[p] \in {"granted", "woken", "holding"}}

\* C15: the semaphore is strictly FIFO: the queue holds the blocked
\* acquires in the order of their arrival, and no caller has a permit
\* while a caller that arrived before it is still waiting, also when it
\* arrived between a release and the resumption of the woken waiter.
C15_StrictFifo ==
  /\ \A a \in 1..Len(semaphore.queue) : \A b \in 1..Len(semaphore.queue) :
       a < b => ticket[semaphore.queue[a]] < ticket[semaphore.queue[b]]
  /\ \A p \in Permitted : \A q \in SemCallers :
       sp[q] = "waiting" => ticket[p] < ticket[q]

C15_Witness ==
  \E p \in SemCallers : \E q \in SemCallers : \E r \in SemCallers :
    /\ sp[p] = "woken" /\ sp[q] = "waiting" /\ sp[r] = "waiting"
    /\ ticket[p] < ticket[q] /\ ticket[q] < ticket[r]
    /\ nextTicket > Cardinality(SemCallers) + 1

\* C16: on every authenticated route the derived credential is the first
\* non-empty trimmed value of the path segment of POST /translate/<key>,
\* the x-goog-api-key header, and the Authorization header without its
\* case-insensitive "Bearer " prefix; an empty or whitespace-only source
\* counts as absent.
C16_UniformCredential ==
  cred # Pending =>
    LET s1 == Trim(IF creq.route = "translate" THEN creq.seg ELSE <<>>)
        s2 == Trim(creq.goog)
        s3 == Trim(StripBearer(Trim(creq.auth)))
    IN cred = IF s1 # <<>> THEN s1 ELSE IF s2 # <<>> THEN s2 ELSE s3

\* C18: a fallback record (its text is the original input) is never
\* written to the translation cache.
C18_NoFallbackCached ==
  \A r \in written : r.kind # "original"

\* C19: skipping an already-tried credential consumes none of the
\* maxRetries attempts: while the loop runs, the attempts used up are
\* the iterations that did not skip.
C19_SkipKeepsAttempts ==
  fr.st = "running" => fr.i = Len(attempts)

\* C21: requests whose fingerprint is the time-salted METHOD:PATH:timestamp
\* are never coalesced with each other: each one invokes processRequest
\* itself, also when two of them arrive on one path in one clock tick.
C21_FallbackNeverCoalesced ==
  \A r \in LookedUp :
    hreq[r].method \in FallbackMethods =>
      (foundAt[r] = 0 /\ invocations[r] = 1)

\* An entry of the map and the call that inserted it
EntryOf(r) == [key |-> GenerateRequestKey(hreq[r]), owner |-> r]

\* C26: each fingerprint has at most one entry in the pending map, the
\* entry of a request stays while its pipeline is pending, a lookup that
\* finds no entry starts a pipeline of its own, and the entry of every
\* request whose pipeline has completed is eventually removed.
C26_EntryLifecycle ==
  /\ [](/\ \A e \in pendingRequests : \A f \in pendingRequests :
             e.key = f.key => e = f
        /\ \A r \in Reqs : hpc[r] = "pending" => EntryOf(r) \in pendingRequests
        /\ \A r \in LookedUp : foundAt[r] = 0 => invocations[r] = 1)
  /\ \A r \in Reqs :
       (hpc[r] = "done" /\ EntryOf(r) \in pendingRequests)
         ~> (EntryOf(r) \notin pendingRequests)

C26_Witness ==
  \E r \in Reqs : \E j \in Reqs :
    /\ r < j /\ hpc[r] = "done" /\ invocations[r] = 1
    /\ GenerateRequestKey(hreq[j]) = GenerateRequestKey(hreq[r])
    /\ EntryOf(r) \notin pendingRequests
    /\ foundAt[j] = 0 /\ invocations[j] = 1

\* C27: a removal timer deletes only the entry that the call which
\* scheduled it inserted, and only after that call's pipeline has
\* settled: no step removes the entry of a request that is still pending
\* or that another call's timer targets.
C27_TimerRemovesOwnEntry ==
  [][\A e \in pendingRequests \ pendingRequests' :
       /\ hpc[e.owner] = "done"
       /\ \E t \in timers \ timers' : t.key = e.key /\ t.by = e.owner]_vars

C27_Witness ==
  \E r \in Reqs : \E j \in Reqs :
    /\ r < j /\ hpc[r] = "done" /\ hpc[j] = "pending"
    /\ GenerateRequestKey(hreq[j]) = GenerateRequestKey(hreq[r])
    /\ EntryOf(j) \in pendingRequests /\ timers = {}
    /\ \E i \in Reqs : foundAt[i] = r

\* One iteration of the loop has just run with a fresh key while the
\* breaker was Open and its timeout had not elapsed
OpenAttemptStep ==
  /\ fr.st = "running"
  /\ breaker.state = "OPEN" /\ now < breaker.nextAttempt
  /\ fr'.usedKeys # fr.usedKeys

\* C22 as stated: while the breaker is Open and now < nextAttempt, an
\* attempt makes no network call, leaves failureCount, successCount and
\* state as they are, and is handled as a failed attempt (backoff, then the
\* next attempt) and does not end the call.
C22_AsStated ==
  [][OpenAttemptStep =>
       /\ received' = received /\ breaker' = breaker
       /\ fr'.st = "running" /\ fr'.i = fr.i + 1
       /\ fr'.delay = Backoff(fr.i)]_vars

\* C22 as amended: such an attempt makes no network call, leaves the
\* breaker as it is and is handled as an attempt that threw: backoff and
\* the next iteration, or a rethrow when it is the last iteration.
C22_OpenRejected ==
  [][OpenAttemptStep =>
       /\ received' = received /\ breaker' = breaker
       /\ IF fr.i < MaxRetries - 1
          THEN /\ fr'.st = "running" /\ fr'.i = fr.i + 1
               /\ fr'.delay = Backoff(fr.i)
          ELSE fr'.st = "threw"]_vars

C22_Witness ==
  /\ fr.st = "running" /\ fr.i >= 1
  /\ attempts[Len(attempts)].out = "open"
  /\ breaker.state = "OPEN" /\ now < breaker.nextAttempt
  /\ fr.delay = Backoff(fr.i - 1)

\* C23: validateResponse is invoked only on responses whose status is not
\* 403, not 429 and below 500, and a response with status >= 500 is never
\* the successful response, whatever the validator answers.
C23_StatusBeforeValidation ==
  /\ \A j \in 1..Len(attempts) :
       attempts[j].validated =>
         Status(attempts[j].out) \notin {403, 429}
           /\ Status(attempts[j].out) < 500
  /\ fr.successfulResponse.status < 500

\* The attempts of this call that made an upstream call
UpstreamCalls ==
  {j \in 1..Len(attempts) : attempts[j].out \notin {"nokey", "open"}}

\* C24: within one call no key is used for more than one upstream call,
\* so the upstream calls number at most maxRetries and at most the keys
\* tried; after a 429, 5xx or thrown error on the only key of the pool no
\* second upstream call follows.
C24_OneCallPerKey ==
  /\ \A a \in UpstreamCalls : \A b \in UpstreamCalls :
       attempts[a].key = attempts[b].key => a = b
  /\ Cardinality(UpstreamCalls) <= Min(MaxRetries, Cardinality(fr.usedKeys))
  /\ (Len(LocalValues) = 1 /\ UpstreamCalls # {}
        /\ \A j \in UpstreamCalls : attempts[j].key \in Range(LocalValues))
       => Cardinality(UpstreamCalls) = 1

C24_Witness ==
  /\ fr.st = "returned" /\ fr.i = MaxRetries
  /\ Len(LocalValues) = 1 /\ Len(attempts) = 1
  /\ attempts[1].out \in {"ratelimit", "server"}
  /\ attempts[1].key \in Range(LocalValues)

\* C28: an iteration that throws (network error, getApiKey failure or
\* breaker rejection) is followed by the backoff delay and the next
\* iteration when it is not the last one, and by a rethrow to the caller
\* when it is the last one (i = maxRetries - 1).
C28_ThrowBacksOffOrRethrows ==
  [][(fr.st = "running" /\ fr.i \notin threwAt /\ fr.i \in threwAt') =>
       IF fr.i < MaxRetries - 1
       THEN /\ fr'.st = "running" /\ fr'.i = fr.i + 1
            /\ fr'.delay = Backoff(fr.i)
       ELSE fr'.st = "threw"]_vars

C28_Witness ==
  /\ fr.st = "threw" /\ (MaxRetries - 1) \in threwAt
  /\ 0 \in threwAt /\ received # <<>>

\* C25: with concurrent getNextKey calls on constant values no counter
\* update is lost: the n-th selection made since the values were installed
\* has index (first counter + n) mod N, the counter holds the index of the
\* latest selection, and the keys returned are those that sequential calls
\* return.
C25_AtomicCounter ==
  LET N == Len(picksVals) IN
  (N >= 1 /\ Len(picks) >= 1) =>
    /\ \A n \in 1..Len(picks) :
         /\ picks[n].idx = (CounterOrZero(picks[1].prev) + n) % N
         /\ picks[n].key = picksVals[picks[n].idx + 1]
    /\ counter = picks[Len(picks)].idx

C25_Witness ==
  /\ Len(picksVals) = 2 /\ Len(picks) >= 2
  /\ \E p \in Callers : op[p] = "next" /\ pc[p] # "idle"

\* C29: a validateClientKey answered from the local values finds them
\* younger than CACHE_DURATION, for the auth-secret set as for every set.
C29_CacheAgeBounded ==
  [][(last' # last /\ last'.op = "validate" /\ last'.seen = "hit")
       => now - timestamp < CacheDuration]_vars

\* C30: the counter is written to the store once every 100 selections,
\* for any pool size.
C30_SyncEveryHundred ==
  syncIssued * SyncInterval <= MaxOps - opsLeft

\* An execution has just ended in success
SuccessStep == inflight' = inflight - 1 /\ consecFail' = 0

\* C38: for every attempt index a the wait after a 429 is
\* min(1000 * (a + 1), 5000) ms and the delay after a status >= 500 or a
\* thrown error is min(100 * 2^a, 5000) ms; no wait exceeds 5000 ms, the
\* waits of each kind are non-decreasing in a, and 429 responses on
\* attempts 0 and 1 add at least 1000 + 2000 ms before the third attempt.
C38_DelaySchedule ==
  /\ \A j \in 1..Len(waits) :
       LET w == waits[j]
           a == j - 1
       IN /\ w.i = a
          /\ w.after = "ratelimit" =>
               w.ms = (IF 1000 * (a + 1) < 5000 THEN 1000 * (a + 1) ELSE 5000)
          /\ w.after \in {"server", "neterr"} =>
               w.ms = (IF 100 * 2 ^ a < 5000 THEN 100 * 2 ^ a ELSE 5000)
          /\ w.ms > 0 /\ w.ms <= 5000
          /\ \A k \in 1..(j - 1) :
               (waits[k].after = "ratelimit") = (w.after = "ratelimit") =>
                 waits[k].ms <= w.ms
  /\ (Len(waits) >= 2 /\ waits[1].after = "ratelimit"
        /\ waits[2].after = "ratelimit") =>
       waits[1].ms + waits[2].ms >= 1000 + 2000

C38_Witness ==
  /\ Len(waits) = MaxAttempts
  /\ waits[1].after = "ratelimit" /\ waits[2].after = "ratelimit"
  /\ waits[3].after = "neterr"
  /\ waits[MaxAttempts].after = "server" /\ waits[MaxAttempts].ms = 5000
  /\ waits[MaxAttempts - 1].after = "ratelimit"
  /\ waits[MaxAttempts - 1].ms = 5000

\* C39: every fetchWithRetry call terminates: each iteration runs with
\* i < maxRetries and either ends the call or increments i, so there are
\* at most maxRetries getApiKey calls and at most maxRetries upstream
\* calls; the call then returns a response or null, or rethrows, for every
\* pool size, pools smaller than maxRetries and shrinking pools included.
C39_Terminates ==
  /\ [](/\ fr.i <= MaxRetries
        /\ Len(attempts) <= MaxRetries
        /\ Cardinality(UpstreamCalls) <= MaxRetries
        /\ (fr.st = "returned" =>
              \/ fr.value = None
              \/ \E j \in 1..Len(received) : fr.value = received[j]))
  /\ [][(fr.st = "running" /\ fr' # fr) =>
          /\ fr.i < MaxRetries
          /\ \/ fr'.st = "running" /\ fr'.i = fr.i + 1
             \/ fr'.st \in {"returned", "threw"}]_vars
  /\ (fr.st = "running") ~> (fr.st \in {"returned", "threw"})

C39_Witness ==
  /\ fr.st = "returned" /\ fr.i = MaxRetries
  /\ Len(evictions) > 0
  /\ Cardinality(Range(LocalValues)) < Cardinality(Keys)
  /\ Cardinality(UpstreamCalls) < MaxRetries

\* C31: at every instant the number of single-text translations between
\* the acquire and the release of the shared semaphore, over all the
\* translateBatch calls in progress, is at most PARALLEL_TRANSLATION_LIMIT.
C31_ParallelLimit == Cardinality(Permitted) <= SemaphoreMax

C31_Witness ==
  /\ Cardinality({p \in SemCallers : sp[p] = "holding"}) = SemaphoreMax
  /\ Len(semaphore.queue) = 2
  /\ nextTicket > Cardinality(SemCallers) + 1

\* C32: permits are never leaked: once the started batch has finished,
\* normally or with an error, the semaphore has inUse = 0 and an empty
\* waiter queue.
C32_NoPermitLeft ==
  bst \in {"returned", "threw"} =>
    semaphore.current = 0 /\ Len(semaphore.queue) = 0

\* C33: for releases that follow their granted acquire, 0 <= inUse <= max
\* in every state, waiters are queued only while inUse = max, and a release
\* with a non-empty queue wakes exactly the head waiter and hands the
\* permit over, leaving inUse unchanged.
C33_SemaphoreInvariant ==
  /\ [](/\ 0 <= semaphore.current /\ semaphore.current <= SemaphoreMax
        /\ (Len(semaphore.queue) > 0 => semaphore.current = SemaphoreMax))
  /\ [][\A p \in SemCallers :
         (sp[p] = "holding" /\ sp'[p] = "idle") =>
           IF Len(semaphore.queue) > 0
           THEN /\ semaphore'.current = semaphore.current
                /\ semaphore'.queue = Tail(semaphore.queue)
                /\ sp[Head(semaphore.queue)] = "waiting"
                /\ sp'[Head(semaphore.queue)] = "woken"
                /\ \A q \in SemCallers \ {p, Head(semaphore.queue)} :
                     sp'[q] = sp[q]
           ELSE /\ semaphore'.current = semaphore.current - 1
                /\ semaphore'.queue = semaphore.queue
                /\ \A q \in SemCallers \ {p} : sp'[q] = sp[q]]_vars

C33_Witness ==
  /\ \E p \in SemCallers : sp[p] = "woken"
  /\ \E p \in SemCallers : sp[p] = "waiting"
  /\ semaphore.current = SemaphoreMax

\* C34: every acquire eventually returns, provided every holder eventually
\* releases: no wake-up is lost and no waiter starves.
C34_AcquireReturns ==
  \A p \in SemCallers :
    (sp[p] \in {"waiting", "granted", "woken"}) ~> (sp[p] = "holding")

C34_Witness ==
  \E p \in SemCallers :
    /\ sp[p] = "holding"
    /\ ticket[p] > SemaphoreMax + 1
    /\ Len(semaphore.queue) > 0

\* C35: in HALF_OPEN a success that brings successCount to
\* successThreshold closes the breaker with successCount = 0 and
\* failureCount = 0, a success that leaves it below keeps the breaker
\* HALF_OPEN, and the breaker leaves HALF_OPEN for CLOSED in no other step.
C35_HalfOpenCloses ==
  [][/\ (breaker.state = "HALF_OPEN" /\ SuccessStep) =>
          IF breaker.successCount + 1 >= SuccessThreshold
          THEN /\ breaker'.state = "CLOSED"
               /\ breaker'.successCount = 0 /\ breaker'.failureCount = 0
          ELSE /\ breaker'.state = "HALF_OPEN"
               /\ breaker'.successCount = breaker.successCount + 1
     /\ (breaker.state = "HALF_OPEN" /\ breaker'.state = "CLOSED") =>
          (SuccessStep /\ breaker.successCount + 1 = SuccessThreshold)]_vars

C35_Witness ==
  /\ breaker.state = "CLOSED" /\ breaker.nextAttempt > 0
  /\ breaker.successCount = 0 /\ breaker.failureCount = 0
  /\ inflight = 0

\* C36: in every reachable state CLOSED implies failureCount <
\* failureThreshold and successCount = 0, OPEN implies successCount = 0 and
\* failureCount >= failureThreshold, and successCount is non-zero only in
\* HALF_OPEN and always below successThreshold.
C36_StateInvariants ==
  /\ breaker.state = "CLOSED" =>
       breaker.failureCount < FailureThreshold /\ breaker.successCount = 0
  /\ breaker.state = "OPEN" =>
       breaker.successCount = 0 /\ breaker.failureCount >= FailureThreshold
  /\ breaker.successCount # 0 => breaker.state = "HALF_OPEN"
  /\ breaker.successCount < SuccessThreshold

\* C37: the breaker counts a failure only in an attempt whose fetch
\* rejected; every attempt that received a response, whatever its status,
\* sets failureCount to 0, and the breaker opens only on a rejected fetch.
C37_ResponseIsSuccess ==
  [][/\ Len(received') = Len(received) + 1 =>
          (breaker'.failureCount = 0 /\ breaker'.state # "OPEN")
     /\ (breaker'.failureCount > breaker.failureCount
           \/ (breaker'.state = "OPEN" /\ breaker.state # "OPEN")) =>
          (Len(attempts') = Len(attempts) + 1
             /\ attempts'[Len(attempts')].out = "neterr")]_vars

C37_Witness ==
  /\ Len(attempts) = 2
  /\ attempts[1].out = "neterr" /\ attempts[2].out = "server"
  /\ breaker.failureCount = 0 /\ breaker.state = "CLOSED"

\* C17: in state HALF_OPEN every failed execution moves the breaker to
\* OPEN with nextAttempt = now + timeout and successCount = 0, whatever
\* was recorded before it.
C17_HalfOpenFailureOpens ==
  [][(breaker.state = "HALF_OPEN" /\ consecFail' = consecFail + 1)
       => /\ breaker'.state = "OPEN"
          /\ breaker'.nextAttempt = now + BreakerTimeout
          /\ breaker'.successCount = 0]_vars

\* C20: getNextKey either throws or returns a member of the local values
\* it selected from; it never returns undefined.
C20_NeverUndefined ==
  last.op = "next" => last.ret \in (Keys \cup {"threw"})
====
